---- MODULE Spec2Model ----
(***************************************************************************)
(* A model of src/src/scraper.js (class EvertKwokScraper): the retrying    *)
(* fetch, the candidate extraction over the parsed page, the metadata      *)
(* heuristics (title, description, date), the demo-data fallback, the RSS  *)
(* rendering and the file write of run().                                  *)
(*                                                                         *)
(* Strings are TLA+ strings (TLC evaluates Len, \o, SubSeq, on them), so   *)
(* the string functions of the source are modelled character by character. *)
(* Dates are records [year, month, day, ms] in local time, month 0-based   *)
(* as in JavaScript, ms the time of day in milliseconds.                   *)
(***************************************************************************)
EXTENDS Integers, Sequences, FiniteSets, TLC

(***************************************************************************)
(* String primitives (JavaScript String methods and regex character        *)
(* classes).                                                               *)
(***************************************************************************)

\* s.charAt(i - 1): the i-th character (1-based), "" outside the string
CharAt(s, i) == IF i >= 1 /\ i <= Len(s) THEN SubSeq(s, i, i) ELSE ""

\* s.substring(i - 1), from the i-th character to the end
From(s, i) == IF i > Len(s) THEN "" ELSE SubSeq(s, i, Len(s))

\* s.substring(0, n)
Substring0(s, n) == IF Len(s) <= n THEN s ELSE SubSeq(s, 1, n)

Digits == {"0", "1", "2", "3", "4", "5", "6", "7", "8", "9"}

UpperLetters == {"A", "B", "C", "D", "E", "F", "G", "H", "I", "J", "K", "L", "M",
                 "N", "O", "P", "Q", "R", "S", "T", "U", "V", "W", "X", "Y", "Z"}

LowerLetters == {"a", "b", "c", "d", "e", "f", "g", "h", "i", "j", "k", "l", "m",
                 "n", "o", "p", "q", "r", "s", "t", "u", "v", "w", "x", "y", "z"}

\* regex \d
IsDigit(c) == c \in Digits

\* regex \w
IsWord(c) == c \in Digits \cup UpperLetters \cup LowerLetters \cup {"_"}

\* regex \s (the whitespace the inputs of the model contain)
IsSpace(c) == c \in {" ", "\t", "\n"}

\* s.includes(p)
Includes(s, p) ==
    \E i \in 1..(Len(s) - Len(p) + 1) : SubSeq(s, i, i + Len(p) - 1) = p

\* s.startsWith(p)
StartsWith(s, p) == Len(s) >= Len(p) /\ SubSeq(s, 1, Len(p)) = p

\* the least and the greatest element of a set of positions, 0 for the empty set
MinOr0(I) == IF I = {} THEN 0 ELSE CHOOSE i \in I : \A j \in I : i <= j

MaxOr0(I) == IF I = {} THEN 0 ELSE CHOOSE i \in I : \A j \in I : i >= j

\* the positions of s at which p occurs
Occurrences(s, p) ==
    {i \in 1..(Len(s) - Len(p) + 1) : SubSeq(s, i, i + Len(p) - 1) = p}

\* s.indexOf(p) + 1: the first position of p in s, 0 when absent
IndexOf(s, p) == MinOr0(Occurrences(s, p))

\* s.lastIndexOf(p) + 1: the last position of p in s, 0 when absent
LastIndexOf(s, p) == MaxOr0(Occurrences(s, p))

LowerOf(c) ==
    CASE c = "A" -> "a" [] c = "B" -> "b" [] c = "C" -> "c" [] c = "D" -> "d"
      [] c = "E" -> "e" [] c = "F" -> "f" [] c = "G" -> "g" [] c = "H" -> "h"
      [] c = "I" -> "i" [] c = "J" -> "j" [] c = "K" -> "k" [] c = "L" -> "l"
      [] c = "M" -> "m" [] c = "N" -> "n" [] c = "O" -> "o" [] c = "P" -> "p"
      [] c = "Q" -> "q" [] c = "R" -> "r" [] c = "S" -> "s" [] c = "T" -> "t"
      [] c = "U" -> "u" [] c = "V" -> "v" [] c = "W" -> "w" [] c = "X" -> "x"
      [] c = "Y" -> "y" [] c = "Z" -> "z" [] OTHER -> c

UpperOf(c) ==
    CASE c = "a" -> "A" [] c = "b" -> "B" [] c = "c" -> "C" [] c = "d" -> "D"
      [] c = "e" -> "E" [] c = "f" -> "F" [] c = "g" -> "G" [] c = "h" -> "H"
      [] c = "i" -> "I" [] c = "j" -> "J" [] c = "k" -> "K" [] c = "l" -> "L"
      [] c = "m" -> "M" [] c = "n" -> "N" [] c = "o" -> "O" [] c = "p" -> "P"
      [] c = "q" -> "Q" [] c = "r" -> "R" [] c = "s" -> "S" [] c = "t" -> "T"
      [] c = "u" -> "U" [] c = "v" -> "V" [] c = "w" -> "W" [] c = "x" -> "X"
      [] c = "y" -> "Y" [] c = "z" -> "Z" [] OTHER -> c

RECURSIVE JoinRange(_, _, _)
\* parts[lo] \o ... \o parts[hi], by halves (the depth of the recursion stays small)
JoinRange(parts, lo, hi) ==
    IF lo > hi THEN ""
    ELSE IF lo = hi THEN parts[lo]
    ELSE LET mid == (lo + hi) \div 2
         IN  JoinRange(parts, lo, mid) \o JoinRange(parts, mid + 1, hi)

\* parts.join(''): the concatenation of a sequence of strings
Join(parts) == JoinRange(parts, 1, Len(parts))

\* s.toLowerCase()
ToLowerCase(s) == Join([i \in 1..Len(s) |-> LowerOf(SubSeq(s, i, i))])

\* s.replace(/c/g, r) for a single character c
ReplaceChar(s, c, r) ==
    Join([i \in 1..Len(s) |-> IF SubSeq(s, i, i) = c THEN r ELSE SubSeq(s, i, i)])

\* s.replace(/\s+/g, ' '): every run of whitespace becomes one space
CollapseWhitespace(s) ==
    Join([i \in 1..Len(s) |->
            IF ~IsSpace(SubSeq(s, i, i)) THEN SubSeq(s, i, i)
            ELSE IF i > 1 /\ IsSpace(SubSeq(s, i - 1, i - 1)) THEN "" ELSE " "])

\* the characters of s from position lo to position hi, "" when lo is 0
Between(s, lo, hi) == IF lo = 0 THEN "" ELSE SubSeq(s, lo, hi)

\* the positions of the characters of s that are not whitespace
NonSpaces(s) == {i \in 1..Len(s) : ~IsSpace(SubSeq(s, i, i))}

\* s.trim()
Trim(s) == Between(s, MinOr0(NonSpaces(s)), MaxOr0(NonSpaces(s)))

DigitVal(c) ==
    CASE c = "0" -> 0 [] c = "1" -> 1 [] c = "2" -> 2 [] c = "3" -> 3
      [] c = "4" -> 4 [] c = "5" -> 5 [] c = "6" -> 6 [] c = "7" -> 7
      [] c = "8" -> 8 [] c = "9" -> 9

RECURSIVE ParseInt(_)
\* parseInt(s) of a string of decimal digits (a regex capture of \d{n})
ParseInt(s) ==
    IF s = "" THEN 0
    ELSE ParseInt(SubSeq(s, 1, Len(s) - 1)) * 10 + DigitVal(SubSeq(s, Len(s), Len(s)))

\* whether the n characters of s from position i are all digits: \d{n} at i
DigitsAt(s, i, n) ==
    /\ i >= 1
    /\ i + n - 1 <= Len(s)
    /\ \A j \in i..(i + n - 1) : IsDigit(SubSeq(s, j, j))

(***************************************************************************)
(* Dates: the JavaScript Date of the source, in local time.  A date is a   *)
(* record [year, month, day, ms]: month is 0-based (getMonth()), ms is the *)
(* time of day.  Dates are compared by their time value (getTime()), which *)
(* is the day number times 86400000 plus ms.                               *)
(***************************************************************************)

\* the number of days from 1970-01-01 to the civil date y-(m+1)-d (m 0-based,
\* 0..11; d may lie outside the month: the count is linear in d)
DaysFromCivil(y, m, d) ==
    LET yy  == IF m <= 1 THEN y - 1 ELSE y
        era == yy \div 400
        yoe == yy - era * 400
        mp  == IF m >= 2 THEN m - 2 ELSE m + 10
        doy == (153 * mp + 2) \div 5 + d - 1
        doe == yoe * 365 + yoe \div 4 - yoe \div 100 + doy
    IN  era * 146097 + doe - 719468

\* the civil date [year, month, day] of day number z (the inverse of DaysFromCivil)
CivilFromDays(z) ==
    LET zz  == z + 719468
        era == zz \div 146097
        doe == zz - era * 146097
        yoe == (doe - doe \div 1460 + doe \div 36524 - doe \div 146096) \div 365
        doy == doe - (365 * yoe + yoe \div 4 - yoe \div 100)
        mp  == (5 * doy + 2) \div 153
        d   == doy - (153 * mp + 2) \div 5 + 1
        m   == IF mp < 10 THEN mp + 2 ELSE mp - 10
        y   == yoe + era * 400
    IN  [year |-> IF m <= 1 THEN y + 1 ELSE y, month |-> m, day |-> d]

\* the date of the civil day c at the time of day ms
WithTime(c, ms) == [year |-> c.year, month |-> c.month, day |-> c.day, ms |-> ms]

\* MakeDay of ECMAScript: year, month and day of any integer values, normalised
\* (month 12 is January of the next year, day 0 the last day of the month before)
MakeDay(year, month, day, ms) ==
    WithTime(CivilFromDays(DaysFromCivil(year + month \div 12, month % 12, 1) + day - 1),
             ms)

\* new Date(year, month, day): local midnight; a year 0..99 means 1900 + year
NewDate(year, month, day) ==
    MakeDay(IF year >= 0 /\ year <= 99 THEN 1900 + year ELSE year, month, day, 0)

\* date.setMonth(month): the day of the month and the time of day are kept
SetMonth(date, month) == MakeDay(date.year, month, date.day, date.ms)

\* date.setDate(day)
SetDate(date, day) == MakeDay(date.year, date.month, day, date.ms)

\* the sign of a - b for two dates (the subtraction of their time values)
DateDiffSign(a, b) ==
    LET da == DaysFromCivil(a.year, a.month, a.day)
        db == DaysFromCivil(b.year, b.month, b.day)
    IN  IF da # db THEN (IF da > db THEN 1 ELSE -1)
        ELSE IF a.ms # b.ms THEN (IF a.ms > b.ms THEN 1 ELSE -1)
        ELSE 0

(***************************************************************************)
(* extractDateFromUrl: the date patterns, their order and the validation.  *)
(***************************************************************************)

\* the pattern list as written: each regex is named by its place in the list
patterns ==
    << [regex |-> 1, format |-> "ymd",      specificity |-> 3],  \* /YYYY/MM/DD/
       [regex |-> 2, format |-> "ym",       specificity |-> 2],  \* /YYYY/MM/
       [regex |-> 3, format |-> "ymd",      specificity |-> 3],  \* /YYYYMMDD
       [regex |-> 4, format |-> "ymd",      specificity |-> 3],  \* YYYY-MM-DD
       [regex |-> 5, format |-> "ymd",      specificity |-> 3],  \* YYYY_MM_DD
       [regex |-> 6, format |-> "yyyymmdd", specificity |-> 3],  \* 8 digits, no 9th
       [regex |-> 7, format |-> "y",        specificity |-> 1] >> \* /YYYY/

RECURSIVE InsertBySpecificity(_, _)
\* one insertion of a stable sort with (a, b) => b.specificity - a.specificity:
\* x goes before the first element of less specificity
InsertBySpecificity(sorted, x) ==
    IF sorted = <<>> THEN <<x>>
    ELSE IF Head(sorted).specificity - x.specificity < 0
         THEN <<x>> \o sorted
         ELSE <<Head(sorted)>> \o InsertBySpecificity(Tail(sorted), x)

\* a sort that leaves the list as written
LeftAsWritten(ps) == ps

RECURSIVE SortBySpecificity(_)
\* patterns.sort((a, b) => b.specificity - a.specificity): stable, descending
SortBySpecificity(ps) ==
    IF ps = <<>> THEN <<>>
    ELSE InsertBySpecificity(SortBySpecificity(SubSeq(ps, 1, Len(ps) - 1)), ps[Len(ps)])

sortedPatterns == SortBySpecificity(patterns)

\* whether regex k matches url with the match starting at position i
RegexMatchesAt(k, url, i) ==
    CASE k = 1 -> /\ CharAt(url, i) = "/" /\ DigitsAt(url, i + 1, 4)
                  /\ CharAt(url, i + 5) = "/" /\ DigitsAt(url, i + 6, 2)
                  /\ CharAt(url, i + 8) = "/" /\ DigitsAt(url, i + 9, 2)
                  /\ CharAt(url, i + 11) = "/"
      [] k = 2 -> /\ CharAt(url, i) = "/" /\ DigitsAt(url, i + 1, 4)
                  /\ CharAt(url, i + 5) = "/" /\ DigitsAt(url, i + 6, 2)
                  /\ CharAt(url, i + 8) = "/"
      [] k = 3 -> /\ CharAt(url, i) = "/" /\ DigitsAt(url, i + 1, 8)
      [] k = 4 -> /\ DigitsAt(url, i, 4) /\ CharAt(url, i + 4) = "-"
                  /\ DigitsAt(url, i + 5, 2) /\ CharAt(url, i + 7) = "-"
                  /\ DigitsAt(url, i + 8, 2)
      [] k = 5 -> /\ DigitsAt(url, i, 4) /\ CharAt(url, i + 4) = "_"
                  /\ DigitsAt(url, i + 5, 2) /\ CharAt(url, i + 7) = "_"
                  /\ DigitsAt(url, i + 8, 2)
      [] k = 6 -> /\ DigitsAt(url, i, 8) /\ ~IsDigit(CharAt(url, i + 8))
      [] k = 7 -> /\ CharAt(url, i) = "/" /\ DigitsAt(url, i + 1, 4)
                  /\ CharAt(url, i + 5) = "/"

\* url.match(regex): the position of the leftmost match, 0 for no match (null)
RegexMatch(k, url) == MinOr0({i \in 1..Len(url) : RegexMatchesAt(k, url, i)})

\* match[1], match[2], match[3]: the captured groups of the match at position i
RegexGroups(k, url, i) ==
    CASE k = 1 -> <<SubSeq(url, i + 1, i + 4), SubSeq(url, i + 6, i + 7),
                    SubSeq(url, i + 9, i + 10)>>
      [] k = 2 -> <<SubSeq(url, i + 1, i + 4), SubSeq(url, i + 6, i + 7)>>
      [] k = 3 -> <<SubSeq(url, i + 1, i + 4), SubSeq(url, i + 5, i + 6),
                    SubSeq(url, i + 7, i + 8)>>
      [] k = 4 -> <<SubSeq(url, i, i + 3), SubSeq(url, i + 5, i + 6),
                    SubSeq(url, i + 8, i + 9)>>
      [] k = 5 -> <<SubSeq(url, i, i + 3), SubSeq(url, i + 5, i + 6),
                    SubSeq(url, i + 8, i + 9)>>
      [] k = 6 -> <<SubSeq(url, i, i + 7)>>
      [] k = 7 -> <<SubSeq(url, i + 1, i + 4)>>

\* the switch on pattern.format: year, month (0-based) and day of a match
ParsedFields(format, match) ==
    CASE format = "ymd" ->
           [year |-> ParseInt(match[1]), month |-> ParseInt(match[2]) - 1,
            day |-> ParseInt(match[3])]
      [] format = "ym" ->
           [year |-> ParseInt(match[1]), month |-> ParseInt(match[2]) - 1, day |-> 1]
      [] format = "y" ->
           [year |-> ParseInt(match[1]), month |-> 0, day |-> 1]
      [] format = "yyyymmdd" ->
           [year |-> ParseInt(SubSeq(match[1], 1, 4)),
            month |-> ParseInt(SubSeq(match[1], 5, 6)) - 1,
            day |-> ParseInt(SubSeq(match[1], 7, 8))]

\* a validation that does not compare the month of the date with the parsed month
IgnoresMonth(date, year, month, currentYear) ==
    /\ date.year = year
    /\ date.year >= 2000
    /\ date.year <= currentYear + 1

\* "Validate date is reasonable": the constructed date keeps the parsed year and
\* month, and its year is in 2000 .. the current year + 1
DateIsReasonable(date, year, month, currentYear) ==
    /\ date.year = year
    /\ date.month = month
    /\ date.year >= 2000
    /\ date.year <= currentYear + 1

\* the date of the parsed fields f and whether the validation accepts it
ValidatedDate(date, f, currentYear) ==
    [ok |-> DateIsReasonable(date, f.year, f.month, currentYear), date |-> date]

\* new Date(year, month, day) of the parsed fields f, validated
DateOfFields(f, currentYear) ==
    ValidatedDate(NewDate(f.year, f.month, f.day), f, currentYear)

\* the body of `if (match)` for the match of the pattern at position i
DateOfMatch(pattern, url, i, currentYear) ==
    IF i = 0 THEN [ok |-> FALSE]
    ELSE DateOfFields(ParsedFields(pattern.format, RegexGroups(pattern.regex, url, i)),
                      currentYear)

\* one turn of the loop over the patterns: [ok |-> whether it returns, date]
TryPattern(pattern, url, currentYear) ==
    DateOfMatch(pattern, url, RegexMatch(pattern.regex, url), currentYear)

\* the first pattern, in sorted order, that yields a reasonable date: 0 for none
FirstHit(url, currentYear) ==
    MinOr0({k \in 1..Len(sortedPatterns) :
               TryPattern(sortedPatterns[k], url, currentYear).ok})

\* whether extractDateFromUrl(url) reaches "Fallback to current date"
DateFallsBack(url, currentYear) == FirstHit(url, currentYear) = 0

\* what the loop returns for the k-th sorted pattern, now when no pattern returns
DateOfHit(url, now, k) ==
    IF k = 0 THEN now ELSE TryPattern(sortedPatterns[k], url, now.year).date

\* extractDateFromUrl(url) when the clock reads `now`: the date of the first pattern,
\* in sorted order, that yields a reasonable date, else now
extractDateFromUrl(url, now) == DateOfHit(url, now, FirstHit(url, now.year))

(***************************************************************************)
(* URLs: the deny list, the resolution of a src against the base URL and   *)
(* the file name.                                                          *)
(***************************************************************************)

baseUrl == "https://www.evertkwok.nl/cartoon/"

excludePatterns ==
    << "thumbnail", "thumb", "avatar", "logo", "icon", "banner", "header",
       "footer", "sidebar", "-150x150", "-300x300", "wp-content/themes",
       "wp-content/plugins" >>

\* an isValidCartoonUrl that has no deny list
AcceptsEveryUrl(url) == TRUE

\* isValidCartoonUrl(url): no deny-list pattern occurs in the lower-cased URL
isValidCartoonUrl(url) ==
    LET urlLower == ToLowerCase(url)
    IN  ~ \E k \in 1..Len(excludePatterns) : Includes(urlLower, excludePatterns[k])

\* s.split(c) for a single character c: the sequence of the pieces between the c's
Split(s, c) ==
    LET cuts   == {0, Len(s) + 1} \cup {i \in 1..Len(s) : SubSeq(s, i, i) = c}
        cut(k) == CHOOSE x \in cuts : Cardinality({y \in cuts : y < x}) = k
    IN  [k \in 1..(Cardinality(cuts) - 1) |->
            IF cut(k - 1) + 1 > cut(k) - 1 THEN ""
            ELSE SubSeq(s, cut(k - 1) + 1, cut(k) - 1)]

RECURSIVE JoinWith(_, _)
\* parts.join(sep)
JoinWith(parts, sep) ==
    IF parts = <<>> THEN ""
    ELSE IF Len(parts) = 1 THEN parts[1]
    ELSE JoinWith(SubSeq(parts, 1, Len(parts) - 1), sep) \o sep \o parts[Len(parts)]

RECURSIVE DotSegments(_, _)
\* the path state of the URL parser over the first n segments of a path: "." is
\* dropped, ".." removes the segment before it, and either of them as the last
\* segment leaves an empty last segment (a trailing slash)
DotSegments(segs, n) ==
    IF n = 0 THEN <<>>
    ELSE LET before == DotSegments(segs, n - 1)
             last   == n = Len(segs)
         IN  IF segs[n] = ".."
             THEN (IF before = <<>> THEN <<>> ELSE SubSeq(before, 1, Len(before) - 1))
                  \o (IF last THEN <<"">> ELSE <<>>)
             ELSE IF segs[n] = "."
             THEN before \o (IF last THEN <<"">> ELSE <<>>)
             ELSE before \o <<segs[n]>>

\* the path of the segments segs with its dot segments removed
NormalizeSegments(segs) == "/" \o JoinWith(DotSegments(segs, Len(segs)), "/")

\* the normalised form of a path that starts with "/"
NormalizePath(path) == NormalizeSegments(Split(From(path, 2), "/"))

\* whether s is a non-empty string of digits
IsAllDigits(s) == s # "" /\ \A i \in 1..Len(s) : IsDigit(SubSeq(s, i, i))

\* the URL of a host, a port ("" for none) and a path under the scheme of the base:
\* it throws (TypeError: Invalid URL) for an empty host or a port that is no number
UrlOfHostPort(host, port, path) ==
    IF host = "" \/ (port # "" /\ ~IsAllDigits(port))
    THEN [threw |-> TRUE, href |-> ""]
    ELSE [threw |-> FALSE,
          href |-> "https://" \o ToLowerCase(host)
                   \o (IF port = "" THEN "" ELSE ":" \o port)
                   \o NormalizePath(path)]

\* the URL of an authority whose first ":" is at position colon (0 for none)
UrlOfAuthorityAt(authority, colon, path) ==
    UrlOfHostPort(IF colon = 0 THEN authority ELSE SubSeq(authority, 1, colon - 1),
                  IF colon = 0 THEN "" ELSE From(authority, colon + 1),
                  path)

UrlOfAuthority(authority, path) ==
    UrlOfAuthorityAt(authority, IndexOf(authority, ":"), path)

\* the URL of what follows "//", whose first "/" is at position slash (0 for none)
UrlOfNetworkPathAt(rest, slash) ==
    UrlOfAuthority(IF slash = 0 THEN rest ELSE SubSeq(rest, 1, slash - 1),
                   IF slash = 0 THEN "/" ELSE From(rest, slash))

UrlOfNetworkPath(rest) == UrlOfNetworkPathAt(rest, IndexOf(rest, "/"))

\* new URL(rel, baseUrl).href, for a reference rel that has no scheme, query,
\* fragment, backslash, whitespace or percent sign: [threw, href].  A reference
\* "//authority/path" takes the scheme of the base and throws when the authority
\* is not valid; "/path" takes the origin of the base; any other reference is a
\* path relative to "/cartoon/".
NewURL(rel) ==
    IF StartsWith(rel, "//") THEN UrlOfNetworkPath(From(rel, 3))
    ELSE IF StartsWith(rel, "/")
    THEN [threw |-> FALSE, href |-> "https://www.evertkwok.nl" \o NormalizePath(rel)]
    ELSE [threw |-> FALSE,
          href |-> "https://www.evertkwok.nl" \o NormalizePath("/cartoon/" \o rel)]

\* imgSrc.startsWith('http') ? imgSrc : new URL(imgSrc, this.baseUrl).href
fullUrlOf(imgSrc) ==
    IF StartsWith(imgSrc, "http") THEN [threw |-> FALSE, href |-> imgSrc]
    ELSE NewURL(imgSrc)

\* what follows the last "/" of q
LastSegment(q) == From(q, LastIndexOf(q, "/") + 1)

\* path.basename(p): what follows the last "/", trailing slashes dropped
Basename(p) ==
    LastSegment(Substring0(p, MaxOr0({i \in 1..Len(p) : SubSeq(p, i, i) # "/"})))

(***************************************************************************)
(* Titles and descriptions.  An image element is a record of what the      *)
(* lookups of the source return for it: its attributes src, alt and title  *)
(* ("" for an absent attribute) and the trimmed texts of the caption,      *)
(* heading and paragraph lookups ("" when nothing is selected).            *)
(***************************************************************************)

\* url.split('/').pop().split('.')[0], given url.split('/')
FilenameStem(pieces) == Split(pieces[Len(pieces)], ".")[1]

\* .replace(/^\d+/, ''): the leading digits are dropped
DropLeadingDigits(s) ==
    Between(s, MinOr0({i \in 1..Len(s) : ~IsDigit(SubSeq(s, i, i))}), Len(s))

\* a replace that inserts no space
NoCamelSplit(s) == s

\* .replace(/([a-z])([A-Z])/g, '$1 $2')
SplitCamelCase(s) ==
    Join([i \in 1..Len(s) |->
            IF /\ i > 1
               /\ SubSeq(s, i - 1, i - 1) \in LowerLetters
               /\ SubSeq(s, i, i) \in UpperLetters
            THEN " " \o SubSeq(s, i, i)
            ELSE SubSeq(s, i, i)])

\* .replace(/^./, char => char.toUpperCase())
UpperFirst(s) == IF s = "" THEN "" ELSE UpperOf(SubSeq(s, 1, 1)) \o From(s, 2)

\* title || 'Educational Cartoon'
OrEducationalCartoon(title) == IF title = "" THEN "Educational Cartoon" ELSE title

\* generateTitleFromUrl(url)
generateTitleFromUrl(url) ==
    IF url = "" THEN "Cartoon"
    ELSE OrEducationalCartoon(
             Substring0(
                 UpperFirst(
                     Trim(CollapseWhitespace(
                         SplitCamelCase(
                             ReplaceChar(
                                 ReplaceChar(
                                     DropLeadingDigits(FilenameStem(Split(url, "/"))),
                                     "_", " "),
                                 "-", " "))))),
                 50))

\* .replace(/[^\w\s\-\.\,\!\?]/g, '')
DropSpecialChars(s) ==
    Join([i \in 1..Len(s) |->
            IF \/ IsWord(SubSeq(s, i, i))
               \/ IsSpace(SubSeq(s, i, i))
               \/ SubSeq(s, i, i) \in {"-", ".", ",", "!", "?"}
            THEN SubSeq(s, i, i) ELSE ""])

\* cleanTitle(title)
cleanTitle(title) == Substring0(Trim(DropSpecialChars(CollapseWhitespace(title))), 80)

\* array.filter(Boolean) over strings: the empty (or absent) ones are dropped
FilterBoolean(texts) == SelectSeq(texts, LAMBDA t : t # "")

\* the acceptance test of extractTitle's loop
TitleAccepted(candidate) ==
    /\ Len(candidate) > 3
    /\ Len(candidate) < 100
    /\ ToLowerCase(candidate) # "cartoon"
    /\ ~IsAllDigits(candidate)
    /\ ~Includes(candidate, "wp-content")

\* the sources of extractTitle, in the order it tries them
TitleSources(element) ==
    FilterBoolean(<< element.alt, element.title, element.siblingFigcaption,
                     element.parentSiblingCaption, element.figureFigcaption,
                     element.blockFigcaption, element.wpCaptionText,
                     element.heading >>)

\* what extractTitle returns when the k-th source is the first it accepts (0: none)
TitleAt(sources, k, src) ==
    IF k = 0 THEN generateTitleFromUrl(src) ELSE cleanTitle(sources[k])

TitleFrom(sources, src) ==
    TitleAt(sources, MinOr0({k \in 1..Len(sources) : TitleAccepted(sources[k])}), src)

\* extractTitle($, element)
extractTitle(element) == TitleFrom(TitleSources(element), element.src)

\* the acceptance test of extractDescription's loop
DescriptionAccepted(candidate) ==
    /\ Len(candidate) > 10
    /\ Len(candidate) < 500
    /\ ~Includes(ToLowerCase(candidate), "image")
    /\ ~Includes(candidate, "wp-content")

\* the sources of extractDescription, in the order it tries them
DescriptionSources(element) ==
    FilterBoolean(<< element.siblingFigcaption, element.figureFigcaption,
                     element.blockFigcaption, element.title,
                     element.parentSiblingCaption, element.wpCaptionText,
                     element.paragraph >>)

\* desc.substring(0, 200) + (desc.length > 200 ? '...' : '')
Shortened(desc) == Substring0(desc, 200) \o (IF Len(desc) > 200 THEN "..." ELSE "")

\* the description extractDescription makes from the title
DescriptionOfTitle(title) ==
    "Educational cartoon by Evert Kwok featuring "
    \o ToLowerCase(title)
    \o ". Making complex scientific and mathematical concepts accessible through visual humor and clever illustrations."

\* what extractDescription returns when the k-th source is the first it accepts
DescriptionAt(sources, k, element) ==
    IF k = 0 THEN DescriptionOfTitle(extractTitle(element)) ELSE Shortened(sources[k])

DescriptionFrom(sources, element) ==
    DescriptionAt(sources,
                  MinOr0({k \in 1..Len(sources) : DescriptionAccepted(sources[k])}),
                  element)

\* extractDescription($, element)
extractDescription(element) == DescriptionFrom(DescriptionSources(element), element)

\* escapeXml(str)
escapeXml(str) ==
    IF str = "" THEN ""
    ELSE ReplaceChar(ReplaceChar(ReplaceChar(ReplaceChar(ReplaceChar(
             str, "&", "&amp;"), "<", "&lt;"), ">", "&gt;"), "\"", "&quot;"), "'", "&apos;")

(***************************************************************************)
(* The inputs of the model: the image elements a served page is made of,   *)
(* the dates a run may take place on, and the readings of the clock.       *)
(***************************************************************************)

\* the pages of the model hold at most MaxElems image elements
MaxElems == 3

selectors ==
    << "img[src*=\"wp-content/uploads\"]", ".wp-block-image img", ".entry-content img",
       ".post-content img", "article img", ".content img", ".cartoon-image img",
       "figure img", ".gallery img", ".wp-caption img" >>

maxRetries == 3

retryDelay == 2000

\* an image element with the given src and alt and nothing around it; `matches` is
\* the set of the structural selectors (all but the first) that select the element
Img(src, alt, matches) ==
    [src |-> src, alt |-> alt, title |-> "", siblingFigcaption |-> "",
     parentSiblingCaption |-> "", figureFigcaption |-> "", blockFigcaption |-> "",
     wpCaptionText |-> "", heading |-> "", paragraph |-> "", matches |-> matches]

\* the image elements pages are made of
images ==
    << \* 1: an absolute src with a year/month path, inside a figure with a caption
       [Img("https://www.evertkwok.nl/wp-content/uploads/2024/03/pi-day.jpg",
            "Pi Day", {".wp-block-image img", "figure img"})
          EXCEPT !.siblingFigcaption = "Why the digits of pi never end.",
                 !.figureFigcaption = "Why the digits of pi never end.",
                 !.blockFigcaption = "Why the digits of pi never end."],
       \* 2: the same image by a relative src, with another alt, inside an article
       [Img("/wp-content/uploads/2024/03/pi-day.jpg", "The digits of pi", {"article img"})
          EXCEPT !.heading = "Pi for everyone",
                 !.paragraph = "A cartoon about the number pi."],
       \* 3: a relative src with no date and no text around it
       Img("/wp-content/uploads/eulerIdentity.jpg", "", {}),
       \* 4: an absolute src with no date
       Img("https://www.evertkwok.nl/wp-content/uploads/gauss_curve.jpg", "cartoon",
           {".entry-content img"}),
       \* 5: a thumbnail of image 1
       Img("/wp-content/uploads/2024/03/pi-day-150x150.jpg", "Pi Day", {"figure img"}),
       \* 6: a src whose path leaves the uploads directory
       Img("/wp-content/uploads/../gallery/zeta.jpg", "Zeta function", {}),
       \* 7: a src with an authority that is no valid host and port
       Img("//cdn:x/wp-content/uploads/sum.jpg", "Sums", {}),
       \* 8: a src outside the uploads directory
       Img("/images/prime-spiral.png", "Prime spiral", {"figure img"}),
       \* 9: an element with no src attribute
       Img("", "Lazy loaded", {".gallery img", "figure img"}),
       \* 10: a quoted alt text of four characters, and a caption of 246 characters
       [Img("/wp-content/uploads/2024/pi.jpg", "\"Pi\"", {"figure img"})
          EXCEPT !.siblingFigcaption =
                     "The fundamental theorem of calculus explained in one picture. "
                     \o "The fundamental theorem of calculus explained in one picture. "
                     \o "The fundamental theorem of calculus explained in one picture. "
                     \o "The fundamental theorem of calculus explained in one picture"] >>

\* the dates a run may take place on (month 0-based)
Todays ==
    { [year |-> 2025, month |-> 4, day |-> 31],
      [year |-> 2026, month |-> 0, day |-> 15] }

\* the readings of the clock of a run: milliseconds after the time of day it starts at
ClockTicks == {0, 1}

\* new Date() on day `day` when the clock reads `tick` (a run starts at noon)
Now(day, tick) ==
    [year |-> day.year, month |-> day.month, day |-> day.day, ms |-> 43200000 + tick]

\* the days Math.floor(Math.random() * 28) + 1 is drawn from in the model
DemoDays == {1, 28}

\* the values of GITHUB_PAGES_URL in the model ("" for an unset variable)
PagesUrlEnv == {"", "https://example.github.io/feed?a=1&b=2"}

\* a page: the sequence of its image elements in document order, each an index
\* into images
Pages == UNION {[1..n -> 1..Len(images)] : n \in 0..MaxElems}

\* a body that cheerio.load does not take
Unparsable == [parsable |-> FALSE, elements |-> <<>>]

\* the bodies a successful GET may return
Bodies == {[parsable |-> TRUE, elements |-> p] : p \in Pages} \cup {Unparsable}

(***************************************************************************)
(* What the body of the selector loop computes for an image element: as    *)
(* the elements are those of `images`, the results are tabulated once.     *)
(***************************************************************************)

\* $(selector) selects the element: the first selector looks at the src attribute
SelectorMatches(k, element) ==
    IF k = 1 THEN Includes(element.src, "wp-content/uploads")
    ELSE selectors[k] \in element.matches

\* imgSrc && imgSrc.includes('wp-content/uploads')
HasUploadsSrc(element) ==
    element.src # "" /\ Includes(element.src, "wp-content/uploads")

\* what the callback computes for an element whose src passes (or not) the uploads
\* test and resolves to `full`
FactsOfResolved(element, uploads, full) ==
    [uploads     |-> uploads,
     threw       |-> full.threw,
     fullUrl     |-> full.href,
     valid       |-> uploads /\ ~full.threw /\ isValidCartoonUrl(full.href),
     title       |-> IF uploads /\ ~full.threw THEN extractTitle(element) ELSE "",
     description |-> IF uploads /\ ~full.threw THEN extractDescription(element) ELSE "",
     filename    |-> IF uploads /\ ~full.threw THEN Basename(full.href) ELSE "",
     selected    |-> {k \in 1..Len(selectors) : SelectorMatches(k, element)}]

FactsOfSrc(element, uploads) ==
    FactsOfResolved(element, uploads,
                    IF uploads THEN fullUrlOf(element.src)
                    ELSE [threw |-> FALSE, href |-> ""])

FactsOf(element) == FactsOfSrc(element, HasUploadsSrc(element))

\* per image: the guards, the resolved URL and the metadata that do not depend on
\* the clock
imageFacts == [c \in 1..Len(images) |-> FactsOf(images[c])]

\* per day of the run: whether extractDateFromUrl(url) falls back to the clock, and
\* the date it returns otherwise
DatesOf(url) ==
    [t \in Todays |->
        [fallsBack |-> DateFallsBack(url, t.year),
         date      |-> extractDateFromUrl(url, Now(t, 0))]]

\* per image, DatesOf its resolved URL
imageDates == [c \in 1..Len(images) |-> DatesOf(imageFacts[c].fullUrl)]

RECURSIVE MatchedFrom(_, _)
\* the elements the selector loop visits, in the order it visits them: for each
\* selector from the k-th on, the positions in the page of the elements it selects
MatchedFrom(p, k) ==
    IF k > Len(selectors) THEN <<>>
    ELSE SelectSeq([i \in 1..Len(p) |-> i],
                   LAMBDA i : k \in imageFacts[p[i]].selected)
         \o MatchedFrom(p, k + 1)

(***************************************************************************)
(* removeDuplicates, the sort by date, the demo data and the rendering.    *)
(***************************************************************************)

\* a removeDuplicates that removes nothing
KeepsDuplicates(cartoons) == cartoons

RECURSIVE removeDuplicates(_)
\* removeDuplicates(cartoons): the cartoons whose url no earlier cartoon has
removeDuplicates(cartoons) ==
    IF cartoons = <<>> THEN <<>>
    ELSE LET n     == Len(cartoons)
             front == SubSeq(cartoons, 1, n - 1)
         IN  IF \E j \in 1..(n - 1) : cartoons[j].url = cartoons[n].url
             THEN removeDuplicates(front)
             ELSE Append(removeDuplicates(front), cartoons[n])

RECURSIVE InsertByDate(_, _)
\* one insertion of a stable sort with (a, b) => b.date - a.date: x goes before
\* the first element whose date is earlier than its own
InsertByDate(sorted, x) ==
    IF sorted = <<>> THEN <<x>>
    ELSE IF DateDiffSign(Head(sorted).date, x.date) < 0
         THEN <<x>> \o sorted
         ELSE <<Head(sorted)>> \o InsertByDate(Tail(sorted), x)

RECURSIVE SortByDate(_)
\* list.sort((a, b) => b.date - a.date): stable, the latest date first
SortByDate(list) ==
    IF list = <<>> THEN <<>>
    ELSE InsertByDate(SortByDate(SubSeq(list, 1, Len(list) - 1)), list[Len(list)])

demos ==
    << [title |-> "Quantum Mechanics Made Simple",
        description |-> "A humorous exploration of quantum physics concepts, including superposition and wave-particle duality, explained through clever visual metaphors.",
        filename |-> "quantum-mechanics-humor.jpg", monthsAgo |-> 2],
       [title |-> "Calculus and Derivatives Explained",
        description |-> "Understanding the fundamental concepts of calculus through entertaining illustrations that make complex mathematical ideas accessible.",
        filename |-> "calculus-derivatives.jpg", monthsAgo |-> 5],
       [title |-> "Chemical Reactions Adventure",
        description |-> "Exploring the fascinating world of chemistry and molecular interactions through engaging cartoon storytelling.",
        filename |-> "chemistry-reactions.jpg", monthsAgo |-> 8],
       [title |-> "Einstein's Theory of Relativity",
        description |-> "Breaking down Einstein's groundbreaking theories of special and general relativity using visual humor and analogies.",
        filename |-> "einstein-relativity.jpg", monthsAgo |-> 12],
       [title |-> "Pythagoras Theorem Discovery",
        description |-> "The classic story of Pythagoras and his famous theorem, illustrated with mathematical precision and comedic timing.",
        filename |-> "538piethagoras.jpg", monthsAgo |-> 48],
       [title |-> "DNA Structure and Genetics",
        description |-> "Unraveling the mysteries of DNA, genetic inheritance, and molecular biology through entertaining visual narratives.",
        filename |-> "dna-genetics.jpg", monthsAgo |-> 15],
       [title |-> "Physics of Light and Optics",
        description |-> "Illuminating the principles of light, reflection, refraction, and optical phenomena through clever cartoon illustrations.",
        filename |-> "physics-light-optics.jpg", monthsAgo |-> 7],
       [title |-> "Statistics and Probability Fun",
        description |-> "Making statistics and probability theory engaging through humorous examples and visual representations of mathematical concepts.",
        filename |-> "statistics-probability.jpg", monthsAgo |-> 3] >>

DigitChars == <<"0", "1", "2", "3", "4", "5", "6", "7", "8", "9">>

RECURSIVE IntToString(_)
\* String(n) for n >= 0
IntToString(n) ==
    IF n < 10 THEN DigitChars[n + 1]
    ELSE IntToString(n \div 10) \o DigitChars[(n % 10) + 1]

\* String(n).padStart(2, '0')
PadStart2(n) == IF n < 10 THEN "0" \o IntToString(n) ELSE IntToString(n)

\* the date of a demo: new Date(), setMonth(getMonth() - monthsAgo), setDate(random)
DemoDate(demo, now, randomDay) ==
    SetDate(SetMonth(now, now.month - demo.monthsAgo), randomDay)

\* the url of a demo item with the given date
DemoUrl(demo, date) ==
    "https://www.evertkwok.nl/wp-content/uploads/" \o IntToString(date.year) \o "/"
    \o PadStart2(date.month + 1) \o "/" \o demo.filename

\* the item of a demo with the given date
DemoItemAt(demo, date) ==
    [url |-> DemoUrl(demo, date), title |-> demo.title, date |-> date,
     description |-> demo.description, filename |-> demo.filename]

\* the item the callback of demos.map returns
DemoItem(demo, now, randomDay) == DemoItemAt(demo, DemoDate(demo, now, randomDay))

\* the url, title and description of every image of a table of facts
TextsOf(facts) ==
    UNION {{facts[c].fullUrl, facts[c].title, facts[c].description} : c \in DOMAIN facts}

\* every string generateRSS passes to escapeXml in the model: what the images and
\* the demos give as a url, a title or a description
EscapedTexts ==
    TextsOf(imageFacts)
    \cup UNION {{demos[k].title, demos[k].description} : k \in 1..Len(demos)}
    \cup {DemoUrl(demos[k], DemoDate(demos[k], Now(t, 0), 1)) :
              k \in 1..Len(demos), t \in Todays}

\* escapeXml, tabulated over EscapedTexts
escaped == [str \in EscapedTexts |-> escapeXml(str)]

\* pagesUrl of generateRSS, with GITHUB_REPOSITORY unset: the repository URL with
\* github.com replaced by github.io (the second replace changes nothing)
PagesUrl(githubPagesUrl) ==
    IF githubPagesUrl # "" THEN githubPagesUrl
    ELSE "https://github.io/yourusername/evert-kwok-rss"

\* one <item> of the feed: the value interpolated at each place of the template,
\* given the escaped title, url and description
ItemTemplate(title, url, description, date, pagesUrl) ==
    [title              |-> title,
     link               |-> url,
     descriptionText    |-> description,
     descriptionImgSrc  |-> url,
     descriptionImgAlt  |-> title,
     contentTitle       |-> title,
     contentDate        |-> date,
     contentImgSrc      |-> url,
     contentImgAlt      |-> title,
     contentText        |-> description,
     contentLearnMore   |-> pagesUrl,
     pubDate            |-> date,
     dcDate             |-> date,
     guid               |-> url,
     enclosureUrl       |-> url,
     mediaContentUrl    |-> url,
     mediaTitle         |-> title,
     mediaDescription   |-> description,
     sourceUrl          |-> pagesUrl \o "/feed.xml"]

\* the <item> of a cartoon, with `xml` for this.escapeXml
RenderItem(xml, cartoon, pagesUrl) ==
    ItemTemplate(xml[cartoon.title], xml[cartoon.url], xml[cartoon.description],
                 cartoon.date, pagesUrl)

\* a template that renders the first cartoon only
RssOfFirstCartoon(xml, cartoons, now, pagesUrl) ==
    [lastBuildDate |-> now,
     pubDate       |-> IF Len(cartoons) > 0 THEN cartoons[1].date ELSE now,
     atomLink      |-> pagesUrl \o "/feed.xml",
     items         |-> [i \in 1..(IF Len(cartoons) > 0 THEN 1 ELSE 0) |->
                           RenderItem(xml, cartoons[i], pagesUrl)]]

\* the document: the channel dates, the self link and the items
RssTemplate(xml, cartoons, now, pagesUrl) ==
    [lastBuildDate |-> now,
     pubDate       |-> IF Len(cartoons) > 0 THEN cartoons[1].date ELSE now,
     atomLink      |-> pagesUrl \o "/feed.xml",
     items         |-> [i \in 1..Len(cartoons) |-> RenderItem(xml, cartoons[i], pagesUrl)]]

\* generateRSS(cartoons), when the clock reads `now`
generateRSS(cartoons, now, githubPagesUrl) ==
    RssTemplate(escaped, cartoons, now, PagesUrl(githubPagesUrl))

(***************************************************************************)
(* The state of a scraper and of the call made on it.                      *)
(***************************************************************************)
VARIABLES
    pc,          \* where the call stands
    today,       \* the day of the run
    clock,       \* the last reading of the clock (a tick of ClockTicks)
    attempt,     \* fetchWithRetry: the attempt of the current frame, 0 outside
    gets,        \* fetchWithRetry: the GETs issued so far by the call
    waits,       \* fetchWithRetry: the delays waited so far by the call, in ms
    response,    \* scrapeCartoons: response.data, NoResponse while there is none
    page,        \* scrapeCartoons: the parsed document, as its image elements
    matched,     \* scrapeCartoons: the elements the selector loop visits, in order
    pos,         \* scrapeCartoons: how many of them it has visited
    foundUrls,   \* scrapeCartoons: the set foundUrls
    cartoons,    \* scrapeCartoons: the array cartoons
    scrapeError, \* the error scrapeCartoons caught (with the GETs issued and the
                 \* candidates collected by then), NoError when it caught none
    demoData,    \* getDemoData: the items mapped so far
    result,      \* what scrapeCartoons returned to run()
    rss,         \* run(): rssXml, as << >> before generateRSS and <<document>> after
    written,     \* the contents handed to fs.writeFile, in order
    ending,      \* how the call ended, NoEnding while it runs
    ret          \* what the call returned, as << >> or <<value>>

vars == << pc, today, clock, attempt, gets, waits, response, page, matched, pos,
           foundUrls, cartoons, scrapeError, demoData, result, rss, written,
           ending, ret >>

NoValue == "none"

NoResponse == [parsable |-> FALSE, elements |-> <<>>]

NoError == [kind |-> NoValue, get |-> 0, candidates |-> 0]

NoEnding == [how |-> NoValue, code |-> 0, error |-> NoValue]

\* the locals of fetchWithRetry
fetchVars == << attempt, gets, waits >>

\* the locals of the try block of scrapeCartoons
scrapeVars == << response, page, matched, pos, foundUrls, cartoons >>

\* the try block of scrapeCartoons before it has a document
NoScrapeLocals ==
    /\ response' = NoResponse
    /\ page' = <<>>
    /\ matched' = <<>>
    /\ pos' = 0
    /\ foundUrls' = {}
    /\ cartoons' = <<>>

\* no call of fetchWithRetry is in progress
NoFetchLocals ==
    /\ attempt' = 0
    /\ gets' = 0
    /\ waits' = <<>>

Init ==
    /\ pc = "idle"
    /\ today \in Todays
    /\ clock = 0
    /\ attempt = 0
    /\ gets = 0
    /\ waits = <<>>
    /\ response = NoResponse
    /\ page = <<>>
    /\ matched = <<>>
    /\ pos = 0
    /\ foundUrls = {}
    /\ cartoons = <<>>
    /\ scrapeError = NoError
    /\ demoData = <<>>
    /\ result = <<>>
    /\ rss = <<>>
    /\ written = <<>>
    /\ ending = NoEnding
    /\ ret = <<>>

(***************************************************************************)
(* run() up to the return of fetchWithRetry.                               *)
(***************************************************************************)

\* run() is called: scrapeCartoons calls fetchWithRetry(this.baseUrl), attempt 1
Run ==
    /\ pc = "idle"
    /\ pc' = "get"
    /\ attempt' = 1
    /\ UNCHANGED << today, clock, gets, waits, scrapeVars, scrapeError, demoData,
                    result, rss, written, ending, ret >>

\* fetchWithRetry: axios.get is called and awaited
IssueGet ==
    /\ pc = "get"
    /\ pc' = "awaiting"
    /\ gets' = gets + 1
    /\ UNCHANGED << today, clock, attempt, waits, scrapeVars, scrapeError, demoData,
                    result, rss, written, ending, ret >>

\* the catch block of scrapeCartoons is entered with `error`: it calls getDemoData
\* (the locals of the try block and of fetchWithRetry are gone)
ScrapeCatch(error) ==
    /\ pc' = "demo"
    /\ scrapeError' = error
    /\ demoData' = <<>>
    /\ NoScrapeLocals
    /\ NoFetchLocals

\* the GET succeeds: fetchWithRetry returns the response to scrapeCartoons
GetSucceeds ==
    /\ pc = "awaiting"
    /\ \E body \in Bodies : response' = body
    /\ pc' = "load"
    /\ NoFetchLocals
    /\ UNCHANGED << today, clock, page, matched, pos, foundUrls, cartoons, scrapeError,
                    demoData, result, rss, written, ending, ret >>

\* a catch block that retries once more than maxRetries allows
RetriesOnceMore(n) == n <= maxRetries

\* whether the catch block of fetchWithRetry retries after a failed attempt
ShouldRetry(n) == n < maxRetries

\* a scrapeCartoons without its try/catch: the error of the last attempt goes up to
\* the catch block of run()
GetFailsUncaught ==
    /\ pc = "awaiting"
    /\ IF attempt < maxRetries
       THEN /\ waits' = Append(waits, retryDelay * attempt)
            /\ pc' = "delay"
            /\ UNCHANGED << attempt, gets, ending >>
       ELSE /\ pc' = "ended"
            /\ ending' = [how |-> "throw", code |-> 1, error |-> "fetch"]
            /\ NoFetchLocals
    /\ UNCHANGED << today, clock, scrapeVars, scrapeError, demoData, result, rss,
                    written, ret >>

\* the GET fails: fetchWithRetry waits and tries again, or throws the error
GetFails ==
    /\ pc = "awaiting"
    /\ IF ShouldRetry(attempt)
       THEN /\ waits' = Append(waits, retryDelay * attempt)
            /\ pc' = "delay"
            /\ UNCHANGED << attempt, gets, scrapeVars, scrapeError, demoData >>
       ELSE ScrapeCatch([kind |-> "fetch", get |-> gets, candidates |-> 0])
    /\ UNCHANGED << today, clock, result, rss, written, ending, ret >>

\* the delay is over: fetchWithRetry(url, attempt + 1)
DelayElapses ==
    /\ pc = "delay"
    /\ attempt' = attempt + 1
    /\ pc' = "get"
    /\ UNCHANGED << today, clock, gets, waits, scrapeVars, scrapeError, demoData,
                    result, rss, written, ending, ret >>

(***************************************************************************)
(* scrapeCartoons after the fetch: the try block and the catch block.      *)
(***************************************************************************)

\* cheerio.load(response.data): the document, or an error for a body it does not take
Load ==
    /\ pc = "load"
    /\ IF ~response.parsable
       THEN /\ ScrapeCatch([kind |-> "parse", get |-> 0, candidates |-> 0])
       ELSE /\ page' = response.elements
            /\ matched' = MatchedFrom(response.elements, 1)
            /\ pos' = 0
            /\ foundUrls' = {}
            /\ cartoons' = <<>>
            /\ response' = NoResponse
            /\ pc' = "each"
            /\ UNCHANGED << fetchVars, scrapeError, demoData >>
    /\ UNCHANGED << today, clock, result, rss, written, ending, ret >>

\* the guard of the callback: a src with the uploads marker that is not in foundUrls
PassesGuard(imgSrc, found) ==
    /\ imgSrc # ""
    /\ Includes(imgSrc, "wp-content/uploads")
    /\ imgSrc \notin found

\* the callback of $(selector).each for an element with the given src, of which
\* `facts` and `dated` hold what the calls of the callback compute
Callback(imgSrc, facts, dated) ==
    IF ~(facts.uploads /\ PassesGuard(imgSrc, foundUrls))
    THEN /\ pos' = pos + 1
         /\ UNCHANGED << pc, clock, fetchVars, response, page, matched, foundUrls,
                         cartoons, scrapeError, demoData >>
    ELSE IF facts.threw
    THEN /\ ScrapeCatch([kind |-> "url", get |-> 0, candidates |-> Len(cartoons)])
         /\ UNCHANGED clock
    ELSE IF ~facts.valid
    THEN /\ pos' = pos + 1
         /\ UNCHANGED << pc, clock, fetchVars, response, page, matched, foundUrls,
                         cartoons, scrapeError, demoData >>
    ELSE /\ \E tick \in ClockTicks :
              /\ tick >= clock
              /\ dated.fallsBack \/ tick = clock
              /\ clock' = tick
              /\ cartoons' = Append(cartoons,
                     [url         |-> facts.fullUrl,
                      title       |-> facts.title,
                      date        |-> IF dated.fallsBack THEN Now(today, tick)
                                      ELSE dated.date,
                      description |-> facts.description,
                      filename    |-> facts.filename])
         /\ foundUrls' = foundUrls \cup {facts.fullUrl}
         /\ pos' = pos + 1
         /\ UNCHANGED << pc, fetchVars, response, page, matched, scrapeError, demoData >>

\* the image the loop visits next
NextImage == page[matched[pos + 1]]

\* a selector loop whose catch block returns the candidates collected so far
VisitReturnsCollected ==
    /\ pc = "each"
    /\ pos < Len(matched)
    /\ IF /\ imageFacts[NextImage].uploads
          /\ PassesGuard(images[NextImage].src, foundUrls)
          /\ imageFacts[NextImage].threw
       THEN /\ pc' = "scraped"
            /\ scrapeError' = [kind |-> "url", get |-> 0, candidates |-> Len(cartoons)]
            /\ result' = cartoons
            /\ UNCHANGED << clock, fetchVars, scrapeVars, demoData >>
       ELSE /\ Callback(images[NextImage].src, imageFacts[NextImage],
                        imageDates[NextImage][today])
            /\ UNCHANGED result
    /\ UNCHANGED << today, rss, written, ending, ret >>

\* the selector loop visits its next element
Visit ==
    /\ pc = "each"
    /\ pos < Len(matched)
    /\ Callback(images[NextImage].src, imageFacts[NextImage],
                imageDates[NextImage][today])
    /\ UNCHANGED << today, result, rss, written, ending, ret >>

\* a scrapeCartoons that leaves the unique cartoons in the order of discovery
LeftAsDiscovered(uniqueCartoons) == uniqueCartoons

\* the order scrapeCartoons puts the unique cartoons in
sortCartoons(uniqueCartoons) == SortByDate(uniqueCartoons)

\* after the loop: removeDuplicates, the sort, and the return to run()
ScrapeReturns ==
    /\ pc = "each"
    /\ pos = Len(matched)
    /\ result' = sortCartoons(removeDuplicates(cartoons))
    /\ pc' = "scraped"
    /\ UNCHANGED << today, clock, fetchVars, scrapeVars, scrapeError, demoData, rss,
                    written, ending, ret >>

\* getDemoData: the callback of demos.map for the next demo
DemoStep ==
    /\ pc = "demo"
    /\ Len(demoData) < Len(demos)
    /\ \E tick \in ClockTicks, randomDay \in DemoDays :
          /\ tick >= clock
          /\ clock' = tick
          /\ demoData' = Append(demoData,
                 DemoItem(demos[Len(demoData) + 1], Now(today, tick), randomDay))
    /\ UNCHANGED << pc, today, fetchVars, scrapeVars, scrapeError, result, rss,
                    written, ending, ret >>

\* a getDemoData that leaves its items in the order of the demos
LeftAsMapped(items) == items

\* the order getDemoData puts its items in
sortDemos(items) == SortByDate(items)

\* getDemoData sorts the items and scrapeCartoons returns them to run()
DemoReturns ==
    /\ pc = "demo"
    /\ Len(demoData) = Len(demos)
    /\ result' = sortDemos(demoData)
    /\ demoData' = <<>>
    /\ pc' = "scraped"
    /\ UNCHANGED << today, clock, fetchVars, scrapeVars, scrapeError, rss, written,
                    ending, ret >>

(***************************************************************************)
(* run() after scrapeCartoons.                                             *)
(***************************************************************************)

\* a run() that turns to the demo data when the page gives no cartoons
NoCartoonsFallsBack ==
    /\ pc = "scraped"
    /\ Len(result) = 0
    /\ pc' = "demo"
    /\ demoData' = <<>>
    /\ NoScrapeLocals
    /\ UNCHANGED << today, clock, fetchVars, scrapeError, result, rss, written,
                    ending, ret >>

\* cartoons.length === 0: 'No cartoons found!' and process.exit(1)
NoCartoons ==
    /\ pc = "scraped"
    /\ Len(result) = 0
    /\ pc' = "ended"
    /\ ending' = [how |-> "exit", code |-> 1, error |-> "no cartoons"]
    /\ NoScrapeLocals
    /\ UNCHANGED << today, clock, fetchVars, scrapeError, demoData, result, rss,
                    written, ret >>

\* generateRSS(cartoons), with the value of GITHUB_PAGES_URL it reads
GenerateRSS ==
    /\ pc = "scraped"
    /\ Len(result) # 0
    /\ \E githubPagesUrl \in PagesUrlEnv :
          rss' = <<generateRSS(result, Now(today, clock), githubPagesUrl)>>
    /\ pc' = "rendered"
    /\ NoScrapeLocals
    /\ UNCHANGED << today, clock, fetchVars, scrapeError, demoData, result, written,
                    ending, ret >>

\* the catch block of run(): process.exit(1) in GitHub Actions, else the error is
\* thrown to the caller (the locals of run() are gone)
Fatal(error) ==
    /\ pc' = "ended"
    /\ \E githubActions \in BOOLEAN :
          ending' = IF githubActions
                    THEN [how |-> "exit", code |-> 1, error |-> error]
                    ELSE [how |-> "throw", code |-> 1, error |-> error]
    /\ result' = <<>>
    /\ rss' = <<>>

\* ensureDirectoryExists(this.outputFile): the directory is there or is made
EnsureDirectoryExists ==
    /\ pc = "rendered"
    /\ pc' = "directory"
    /\ UNCHANGED << today, clock, fetchVars, scrapeVars, scrapeError, demoData,
                    result, rss, written, ending, ret >>

\* ensureDirectoryExists: fs.mkdir fails
MkdirFails ==
    /\ pc = "rendered"
    /\ Fatal("mkdir")
    /\ UNCHANGED << today, clock, fetchVars, scrapeVars, scrapeError, demoData,
                    written, ret >>

\* what run() returns
Summary(list) ==
    [cartoonCount |-> Len(list), latestDate |-> list[1].date]

\* fs.writeFile(this.outputFile, rssXml) succeeds; run() returns its summary
WriteFile ==
    /\ pc = "directory"
    /\ written' = Append(written, rss[1])
    /\ ret' = <<Summary(result)>>
    /\ ending' = [how |-> "return", code |-> 0, error |-> NoValue]
    /\ pc' = "ended"
    /\ result' = <<>>
    /\ rss' = <<>>
    /\ UNCHANGED << today, clock, fetchVars, scrapeVars, scrapeError, demoData >>

\* fs.writeFile is called and fails
WriteFails ==
    /\ pc = "directory"
    /\ written' = Append(written, rss[1])
    /\ Fatal("write")
    /\ UNCHANGED << today, clock, fetchVars, scrapeVars, scrapeError, demoData, ret >>

(***************************************************************************)
(* A direct call of extractDateFromUrl, on URLs that carry date tokens of  *)
(* every shape the patterns look for, with valid and invalid numbers.      *)
(***************************************************************************)

DateYears == {"0050", "1990", "2000", "2024", "2027", "2028"}

DateMonths == {"00", "02", "04", "12", "13"}

DateDays == {"00", "01", "29", "30", "31", "32"}

\* the URLs with the tokens y, m, d, one for each shape of token
DateShapes(y, m, d) ==
    { "/u/" \o y \o "/" \o m \o "/" \o d \o "/a.jpg",
      "/u/" \o y \o "/" \o m \o "/a.jpg",
      "/u/" \o y \o "/a.jpg",
      "/u/" \o y \o m \o d \o "-a.jpg",
      "/u/a-" \o y \o "-" \o m \o "-" \o d \o ".jpg",
      "/u/a_" \o y \o "_" \o m \o "_" \o d \o ".jpg",
      "/u/a" \o y \o m \o d \o ".jpg",
      "/u/a" \o y \o m \o d \o "7.jpg",
      "/u/" \o y \o "/" \o m \o "/a2024" \o m \o d \o ".jpg",
      "/u/" \o y \o "/" \o m \o "/a-2023-05-" \o d \o ".jpg",
      "/2000/u/" \o y \o "/" \o m \o "/" \o d \o "/a.jpg" }

DateUrls ==
    UNION {DateShapes(y, m, d) : y \in DateYears, m \in DateMonths, d \in DateDays}
        \cup {"/u/a.jpg"}

\* extractDateFromUrl(url) is called when the clock reads `clock`
CallExtractDateFromUrl ==
    /\ pc = "idle"
    /\ \E url \in DateUrls :
          ret' = << [url  |-> url,
                     date |-> extractDateFromUrl(url, Now(today, clock))] >>
    /\ pc' = "extracted"
    /\ UNCHANGED << today, clock, fetchVars, scrapeVars, scrapeError, demoData,
                    result, rss, written, ending >>

(***************************************************************************)
(* Direct calls of extractTitle and extractDescription, on image elements  *)
(* with every kind of alt text, with and without a caption, and with       *)
(* filenames of every shape generateTitleFromUrl normalizes.               *)
(***************************************************************************)

\* a text of 60 characters
SixtyChars == "The fundamental theorem of calculus explained in one picture"

\* the src attributes of the elements
TitleSrcs ==
    { "/wp-content/uploads/quantum-mechanics.jpg",
      "/wp-content/uploads/eulerIdentity.jpg",
      "/wp-content/uploads/2024/03/538piethagoras.jpg",
      "/wp-content/uploads/gauss_curve__fit.min.jpg",
      "/wp-content/uploads/NASA_moonLanding.png",
      "/wp-content/uploads/pi.jpg",
      "/wp-content/uploads/2024-03.jpg",
      "/wp-content/uploads/123.jpg",
      "/wp-content/uploads/-_-.jpg",
      "/wp-content/uploads/the-fundamental-theorem-of-calculus-explained-in-one-picture.jpg" }

\* the alt attributes of the elements ("" for none)
TitleAlts ==
    { "", "cartoon", "Cartoon", "2024", "Pi!", "uploads/wp-content/pi",
      "Pi Day", "\"Pi\"", "@#$%", "  Tom & Jerry:\tthe <limit>  ",
      SixtyChars \o " and a half", SixtyChars \o ", and " \o SixtyChars }

\* the captions of the elements ("" for none)
TitleCaptions ==
    { "", "An image of pi.", "Short one", "A cartoon about the number pi.",
      SixtyChars \o ". " \o SixtyChars \o ". " \o SixtyChars \o ". " \o SixtyChars }

\* the elements extractTitle and extractDescription are called on
TitleElements ==
    { [Img(src, alt, {}) EXCEPT !.siblingFigcaption = caption] :
          src \in TitleSrcs, alt \in TitleAlts, caption \in TitleCaptions }

\* extractTitle($, element) is called
CallExtractTitle ==
    /\ pc = "idle"
    /\ \E element \in TitleElements :
          ret' = << [element |-> element, title |-> extractTitle(element)] >>
    /\ pc' = "titled"
    /\ UNCHANGED << today, clock, fetchVars, scrapeVars, scrapeError, demoData,
                    result, rss, written, ending >>

\* extractDescription($, element) is called
CallExtractDescription ==
    /\ pc = "idle"
    /\ \E element \in TitleElements :
          ret' = << [element |-> element, description |-> extractDescription(element)] >>
    /\ pc' = "described"
    /\ UNCHANGED << today, clock, fetchVars, scrapeVars, scrapeError, demoData,
                    result, rss, written, ending >>

(***************************************************************************)
(* The specification.                                                      *)
(***************************************************************************)

Next ==
    \/ Run
    \/ IssueGet
    \/ GetSucceeds
    \/ GetFails
    \/ DelayElapses
    \/ Load
    \/ Visit
    \/ ScrapeReturns
    \/ DemoStep
    \/ DemoReturns
    \/ NoCartoons
    \/ GenerateRSS
    \/ EnsureDirectoryExists
    \/ MkdirFails
    \/ WriteFile
    \/ WriteFails
    \/ CallExtractDateFromUrl
    \/ CallExtractTitle
    \/ CallExtractDescription

Spec == Init /\ [][Next]_vars

TypeOK == pc \in {"idle", "get", "awaiting", "delay", "load", "each", "demo", "scraped",
                  "rendered", "directory", "ended", "extracted", "titled",
                  "described"}

(***************************************************************************)
(* Properties of fetchWithRetry.                                           *)
(***************************************************************************)

\* where the call stands while fetchWithRetry runs
Fetching == {"get", "awaiting", "delay"}

\* the delays of the linear backoff, in ms
BackoffWaits == <<2000, 4000>>

\* what is left of a call of fetchWithRetry: it goes down with every step
FetchMeasure ==
    IF pc \in Fetching
    THEN 3 * (3 - attempt)
         + (CASE pc = "get" -> 3 [] pc = "awaiting" -> 2 [] pc = "delay" -> 1)
    ELSE 0

FetchInvariant ==
    /\ pc = "get" =>
          /\ attempt \in 1..3
          /\ gets = attempt - 1
          /\ waits = SubSeq(BackoffWaits, 1, attempt - 1)
    /\ pc = "awaiting" =>
          /\ attempt \in 1..3
          /\ gets = attempt
          /\ waits = SubSeq(BackoffWaits, 1, attempt - 1)
    /\ pc = "delay" =>
          /\ attempt \in 1..2
          /\ gets = attempt
          /\ waits = SubSeq(BackoffWaits, 1, attempt)
    /\ pc \in Fetching => ENABLED (IssueGet \/ GetSucceeds \/ GetFails \/ DelayElapses)

FetchStep ==
    \* a GET is issued only when none is in flight, one at a time
    /\ gets' > gets => pc = "get" /\ pc' = "awaiting" /\ gets' = gets + 1
    \* a successful GET: its response is returned
    /\ (pc = "awaiting" /\ pc' = "load") => response' \in Bodies
    \* a failed attempt k < 3: the wait of retryDelay * k, and no GET meanwhile
    /\ (pc = "awaiting" /\ pc' = "delay") =>
          /\ attempt < 3
          /\ waits' = Append(waits, 2000 * attempt)
          /\ gets' = gets
    \* the third failure: the error of the third attempt is thrown, with no more wait
    /\ (pc = "awaiting" /\ pc' \notin {"load", "delay"}) =>
          /\ attempt = 3
          /\ gets = 3
          /\ waits = BackoffWaits
          /\ pc' = "demo"
          /\ scrapeError' = [kind |-> "fetch", get |-> 3, candidates |-> 0]
    \* once the call has returned or thrown, no GET is issued
    /\ (pc \notin Fetching /\ pc # "idle") => (pc' \notin Fetching /\ gets' = 0)
    \* every step of the call brings its end nearer
    /\ pc \in Fetching => FetchMeasure' < FetchMeasure

\* C1: one call of fetchWithRetry issues its GETs one after another, at most 3 of
\* them; it returns the response of the first GET that succeeds and issues none
\* after it; after the failed attempt k < 3 it waits 2000 * k ms; when all 3 fail it
\* throws the error of the third with no further wait; and it always comes to an end
\* (a step is always possible and every step lowers a natural-number measure).
C1_FetchWithRetry == []FetchInvariant /\ [][FetchStep]_vars

\* all three attempts have failed and the error of the third has been thrown
C1_ThirdFailureThrown ==
    /\ pc = "demo"
    /\ demoData = <<>>
    /\ scrapeError = [kind |-> "fetch", get |-> 3, candidates |-> 0]

(***************************************************************************)
(* Properties of the error handling of scrapeCartoons and run().           *)
(***************************************************************************)

\* whether a list holds one item for each demo of getDemoData, and no other
IsDemoList(list) ==
    /\ Len(list) = Len(demos)
    /\ \A k \in 1..Len(demos) :
          \E i \in 1..Len(list) : /\ list[i].title = demos[k].title
                                   /\ list[i].filename = demos[k].filename

ScrapeErrorInvariant ==
    /\ scrapeError # NoError => pc \in {"demo", "scraped", "rendered", "directory", "ended"}
    /\ (scrapeError # NoError /\ pc = "scraped") => IsDemoList(result)
    /\ (pc = "ended" /\ ending.how # "return") =>
          ending.error \in {"no cartoons", "mkdir", "write"}
    /\ (pc = "ended" /\ ending.how # "return" /\ scrapeError # NoError) =>
          ending.error \in {"mkdir", "write"}

ScrapeErrorStep ==
    \* an error of the fetch, of the parsing or of the extraction is caught: the
    \* catch block calls getDemoData
    /\ scrapeError' # scrapeError =>
          /\ scrapeError = NoError
          /\ pc \in {"awaiting", "load", "each"}
          /\ scrapeError'.kind \in {"fetch", "parse", "url"}
          /\ pc' = "demo"
    \* no step of scrapeCartoons ends the run
    /\ pc \in {"get", "awaiting", "delay", "load", "each", "demo"} => pc' # "ended"
    \* with the demo data returned, the run goes on to the rendering and the writing
    /\ (pc = "scraped" /\ scrapeError # NoError) => pc' = "rendered"
    /\ pc = "rendered" =>
          pc' = "directory" \/ (pc' = "ended" /\ ending'.error = "mkdir")
    /\ pc = "directory" => written' = Append(written, rss[1])

\* C2: scrapeCartoons never fails: an error of the fetch (retries exhausted), of the
\* parsing or of the extraction is caught in scrapeCartoons, the list of getDemoData
\* is returned in its place and the run goes on to render and write; the catch block
\* of run() only ever sees the errors of the directory and of the write.
C2_ScrapeNeverFails == []ScrapeErrorInvariant /\ [][ScrapeErrorStep]_vars

\* an error of the extraction was caught and the run has written the demo feed
C2_ExtractionErrorSurvived ==
    /\ pc = "ended"
    /\ ending.how = "return"
    /\ scrapeError.kind = "url"
    /\ Len(written) = 1

FallbackInvariant ==
    \* getDemoData runs only after an error
    /\ (pc = "demo" \/ demoData # <<>>) => scrapeError # NoError
    \* the exit for no cartoons: status 1, nothing rendered, nothing written
    /\ (pc = "ended" /\ ending.error = "no cartoons") =>
          /\ ending.how = "exit"
          /\ ending.code = 1
          /\ scrapeError = NoError
          /\ rss = <<>>
          /\ written = <<>>

FallbackStep ==
    \* getDemoData is called exactly when an error is caught
    /\ (pc' = "demo" /\ pc # "demo") <=> (scrapeError' # NoError /\ scrapeError = NoError)
    \* an extraction that ends without error and without items: no demo data, exit 1
    /\ (pc = "scraped" /\ Len(result) = 0) =>
          /\ scrapeError = NoError
          /\ pc' = "ended"
          /\ ending' = [how |-> "exit", code |-> 1, error |-> "no cartoons"]
          /\ rss' = <<>>
          /\ written' = <<>>

\* C3: getDemoData is called if and only if the fetch or the extraction raised an
\* error; when the extraction ends without error and yields no item, it is not
\* called: run() reports 'No cartoons found!', the process exits with status 1 and
\* nothing is rendered or written.
C3_FallbackIffError == []FallbackInvariant /\ [][FallbackStep]_vars

\* the run has ended on a page that gave no cartoons
C3_ExitedForNoCartoons ==
    /\ pc = "ended"
    /\ ending = [how |-> "exit", code |-> 1, error |-> "no cartoons"]
    /\ scrapeError = NoError

(***************************************************************************)
(* Properties of the written feed.                                         *)
(***************************************************************************)

\* whether doc is the rendering of the whole list: one item per cartoon, in order
RendersWholeList(doc, list) ==
    /\ Len(doc.items) = Len(list)
    /\ \A i \in 1..Len(list) :
          /\ doc.items[i].link = escaped[list[i].url]
          /\ doc.items[i].title = escaped[list[i].title]
          /\ doc.items[i].pubDate = list[i].date

WriteInvariant ==
    /\ Len(written) <= 1
    /\ written # <<>> => pc = "ended"
    /\ rss # <<>> =>
          /\ pc \in {"rendered", "directory"}
          /\ result # <<>>
          /\ RendersWholeList(rss[1], result)
    /\ (pc = "ended" /\ ending.error \in {"no cartoons", "mkdir"}) => written = <<>>

WriteStep ==
    \* the one write: after the rendering of the final, non-empty list, of that rendering
    /\ written' # written =>
          /\ written = <<>>
          /\ pc = "directory"
          /\ result # <<>>
          /\ rss # <<>>
          /\ RendersWholeList(rss[1], result)
          /\ written' = <<rss[1]>>
    \* the list scrapeCartoons returned is the list rendered and written
    /\ pc \in {"scraped", "rendered", "directory"} => (result' = result \/ pc' = "ended")
    /\ pc \in {"rendered", "directory"} => (rss' = rss \/ pc' = "ended")

\* C4: the output file is written at most once in a run, and only after
\* scrapeCartoons has returned the final, non-empty list and generateRSS has
\* rendered the whole of it: what is written holds one <item> per element of the
\* list; a run that ends by the exit for no cartoons, or by an error raised before
\* the write, writes nothing.
C4_WrittenOnceAndWhole == []WriteInvariant /\ [][WriteStep]_vars

\* a run that scraped two cartoons and wrote a feed of two items
C4_TwoItemsWritten ==
    /\ pc = "ended"
    /\ ending.how = "return"
    /\ scrapeError = NoError
    /\ Len(written) = 1
    /\ Len(written[1].items) = 2

\* whether the dates of a sequence never go up
Descending(dates) ==
    \A i \in 1..(Len(dates) - 1) : DateDiffSign(dates[i], dates[i + 1]) >= 0

\* whether the sequence of strings has no string twice
Distinct(strings) ==
    \A i, j \in 1..Len(strings) : strings[i] = strings[j] => i = j

\* C5: when all 3 attempts of the fetch fail, the run takes the demo data; unless the
\* directory or the write fails, it ends with run() returning its summary (exit
\* status 0): the written feed has exactly 8 items, with 8 different URLs, in
\* descending order of date, and the cartoonCount of the summary is 8.
C5_UnreachableSourceGivesDemoFeed ==
    scrapeError.kind = "fetch" =>
        /\ pc = "scraped" =>
              /\ Len(result) = 8
              /\ Distinct([i \in 1..Len(result) |-> result[i].url])
              /\ Descending([i \in 1..Len(result) |-> result[i].date])
        /\ pc = "ended" =>
              \/ ending.how # "return" /\ ending.error \in {"mkdir", "write"}
              \/ /\ ending = [how |-> "return", code |-> 0, error |-> NoValue]
                 /\ Len(ret) = 1
                 /\ ret[1].cartoonCount = 8
                 /\ Len(written) = 1
                 /\ Len(written[1].items) = 8
                 /\ Distinct([i \in 1..8 |-> written[1].items[i].link])
                 /\ Descending([i \in 1..8 |-> written[1].items[i].pubDate])

\* the source was unreachable and the run has returned after writing the feed
C5_DemoFeedWritten ==
    /\ pc = "ended"
    /\ scrapeError = [kind |-> "fetch", get |-> 3, candidates |-> 0]
    /\ ending.how = "return"
    /\ Len(written) = 1

(***************************************************************************)
(* Properties of the list scrapeCartoons returns.  In the state in which   *)
(* it has returned from its try block, page and matched are the document   *)
(* and the elements the loop visited, cartoons is the array as the loop    *)
(* left it and result is the list returned.                                *)
(***************************************************************************)

\* scrapeCartoons has returned from its try block
Scraped == pc = "scraped" /\ scrapeError = NoError

\* the visits of the loop to an element that passes the uploads test and the deny list
Accepted == {j \in 1..Len(matched) : imageFacts[page[matched[j]]].valid}

\* the first visit to an element whose src resolves to url
FirstVisit(url) ==
    MinOr0({j \in Accepted : imageFacts[page[matched[j]]].fullUrl = url})

\* the first cartoon of the array with the given url
FirstPushed(url) == MinOr0({k \in 1..Len(cartoons) : cartoons[k].url = url})

\* C6: the list scrapeCartoons returns has no URL twice; after an extraction it holds
\* the resolved URL of every accepted element of the page exactly once, whatever the
\* selectors that match it and the forms (relative or absolute) of its src, and
\* the item of a URL has the title, description and date of the occurrence the loop
\* discovered first.
C6_EachUrlOnceFirstKept ==
    /\ pc = "scraped" => Distinct([i \in 1..Len(result) |-> result[i].url])
    /\ Scraped =>
          /\ \A j \in Accepted :
                \E i \in 1..Len(result) :
                    result[i].url = imageFacts[page[matched[j]]].fullUrl
          /\ \A i \in 1..Len(result) :
                /\ FirstVisit(result[i].url) # 0
                /\ result[i].title
                      = imageFacts[page[matched[FirstVisit(result[i].url)]]].title
                /\ result[i].description
                      = imageFacts[page[matched[FirstVisit(result[i].url)]]].description
                /\ result[i] = cartoons[FirstPushed(result[i].url)]

\* a page with the same image twice, first with a relative src and then with an
\* absolute one: the array holds it more than once, the list once, as first found
C6_RelativeThenAbsolute ==
    /\ Scraped
    /\ page = <<2, 1>>
    /\ Len(cartoons) > 1
    /\ Len(result) = 1
    /\ result[1].title = "The digits of pi"

\* C7: the list scrapeCartoons returns, after an extraction or from the demo data, has
\* item[i].date >= item[i+1].date for every adjacent pair: its first item is the most
\* recent and its last the oldest, and the first date is the pubDate of the channel.
C7_ListDescending ==
    /\ pc \in {"scraped", "rendered", "directory"} =>
          /\ Descending([i \in 1..Len(result) |-> result[i].date])
          /\ \A i \in 1..Len(result) :
                /\ DateDiffSign(result[1].date, result[i].date) >= 0
                /\ DateDiffSign(result[i].date, result[Len(result)].date) >= 0
    /\ rss # <<>> => rss[1].pubDate = result[1].date

\* an extraction whose sort moved the cartoon found first behind a more recent one
C7_SortReordered ==
    /\ Scraped
    /\ Len(result) = 2
    /\ result[2] = cartoons[1]
    /\ DateDiffSign(result[1].date, result[2].date) > 0

\* whether two dates fall on the same calendar day
SameDay(a, b) == a.year = b.year /\ a.month = b.month /\ a.day = b.day

\* C8: the date of an item is a calendar date and ties keep the order of discovery:
\* of two scraped items whose dates fall on the same calendar day (two items that
\* both fell back to the current date among them), the one discovered first comes
\* first in the sorted list.
C8_SameDayKeepsDiscoveryOrder ==
    Scraped =>
        \A i, j \in 1..Len(result) :
            (/\ SameDay(result[i].date, result[j].date)
             /\ FirstPushed(result[i].url) < FirstPushed(result[j].url)) => i < j

(***************************************************************************)
(* Properties of extractDateFromUrl.                                       *)
(***************************************************************************)

\* the number of days of a month (0-based) of a year
DaysInMonth(year, month) ==
    CASE month \in {0, 2, 4, 6, 7, 9, 11} -> 31
      [] month \in {3, 5, 8, 10} -> 30
      [] OTHER -> IF year % 4 = 0 /\ (year % 100 # 0 \/ year % 400 = 0) THEN 29 ELSE 28

\* whether year, month and day of the date are the numbers that one of the patterns
\* captures in its match of url (day 1 for a year/month pattern, January 1 for the
\* year pattern)
IsCapturedBy(url, date) ==
    \E k \in 1..Len(patterns) :
        /\ RegexMatch(patterns[k].regex, url) # 0
        /\ ParsedFields(patterns[k].format,
                        RegexGroups(patterns[k].regex, url,
                                    RegexMatch(patterns[k].regex, url)))
              = [year |-> date.year, month |-> date.month, day |-> date.day]

\* C9: extractDateFromUrl returns the current date, or a date that is exactly what one
\* matching pattern captures, is a real calendar date and has its year in 2000 ..
\* the current year + 1: a token with month 13 or 00, day 00, a day after the end of
\* the month, or a year like 1990 never gives a date.  So every item of the list
\* scrapeCartoons returns has a year in 2000 .. the current year + 1.
C9_ExtractedDateValid ==
    /\ pc = "extracted" =>
          \/ ret[1].date = Now(today, clock)
          \/ /\ ret[1].date.ms = 0
             /\ ret[1].date.year \in 2000..(today.year + 1)
             /\ ret[1].date.month \in 0..11
             /\ ret[1].date.day \in 1..DaysInMonth(ret[1].date.year, ret[1].date.month)
             /\ IsCapturedBy(ret[1].url, ret[1].date)
    /\ pc = "scraped" =>
          \A i \in 1..Len(result) : result[i].date.year \in 2000..(today.year + 1)

\* February 30 in the path: the year/month/day pattern gives no date and the
\* year/month pattern gives February 1
C9_FellThroughToYearMonth ==
    /\ pc = "extracted"
    /\ ret[1].url = "/u/2024/02/30/a.jpg"
    /\ ret[1].date = [year |-> 2024, month |-> 1, day |-> 1, ms |-> 0]

(***************************************************************************)
(* Properties of the URL filter.                                           *)
(***************************************************************************)

DenyList ==
    { "thumbnail", "thumb", "avatar", "logo", "icon", "banner", "header", "footer",
      "sidebar", "-150x150", "-300x300", "wp-content/themes", "wp-content/plugins" }

\* the URLs an item of the list can have
ItemUrls ==
    {imageFacts[c].fullUrl : c \in 1..Len(images)}
    \cup {DemoUrl(demos[k], DemoDate(demos[k], Now(t, 0), 1)) :
             k \in 1..Len(demos), t \in Todays}

\* per URL: whether it has the uploads marker, and whether it has a denied substring
urlShape ==
    [u \in ItemUrls |->
        [marker |-> Includes(u, "wp-content/uploads"),
         denied |-> \E d \in DenyList : Includes(ToLowerCase(u), d)]]

\* per image: whether its src attribute has the uploads marker
srcHasMarker == [c \in 1..Len(images) |-> Includes(images[c].src, "wp-content/uploads")]

\* the images whose src has the marker and resolves to a URL with no denied substring
Passing == {c \in 1..Len(images) : srcHasMarker[c] /\ ~urlShape[imageFacts[c].fullUrl].denied}

\* C10 as stated: every item of the list scrapeCartoons returns, scraped or from the
\* demo data, has a URL that contains 'wp-content/uploads' and none of the denied
\* substrings.
C10_UrlHasMarkerAndNoDenied ==
    pc = "scraped" =>
        \A i \in 1..Len(result) :
            urlShape[result[i].url].marker /\ ~urlShape[result[i].url].denied

\* C10 amended: every scraped item comes from an image whose src attribute contains
\* 'wp-content/uploads', and its resolved URL contains none of the denied substrings
\* (the resolved URL itself need not contain the marker); every item of the demo
\* data has a URL with the marker and none of the denied substrings; an image whose
\* src is absent, lacks the marker or resolves to a denied URL yields no item, and
\* the other images of the page yield theirs: the list has one item for each
\* resolved URL of the passing images of the page.
C10_SrcHasMarkerUrlNotDenied ==
    /\ (pc = "scraped" /\ scrapeError # NoError) =>
          \A i \in 1..Len(result) :
              urlShape[result[i].url].marker /\ ~urlShape[result[i].url].denied
    /\ Scraped =>
          /\ \A i \in 1..Len(result) :
                /\ ~urlShape[result[i].url].denied
                /\ \E q \in 1..Len(page) :
                      page[q] \in Passing /\ imageFacts[page[q]].fullUrl = result[i].url
          /\ \A q \in 1..Len(page) :
                page[q] \in Passing =>
                    \E i \in 1..Len(result) : result[i].url = imageFacts[page[q]].fullUrl
          /\ Len(result)
                = Cardinality({imageFacts[page[q]].fullUrl :
                                  q \in {r \in 1..Len(page) : page[r] \in Passing}})

\* three images, the second of them a -150x150 thumbnail: two items
C10_ThreeImagesTwoItems ==
    /\ Scraped
    /\ page = <<1, 5, 3>>
    /\ Len(result) = 2

(***************************************************************************)
(* Properties of the escaping in generateRSS.                              *)
(***************************************************************************)

\* the entities escapeXml writes
Entities == {"&amp;", "&lt;", "&gt;", "&quot;", "&apos;"}

\* whether one of the five characters stands raw in s: a <, >, " or ', or an & that
\* does not begin an entity
HasRawSpecial(s) ==
    \E i \in 1..Len(s) :
        \/ SubSeq(s, i, i) \in {"<", ">", "\"", "'"}
        \/ /\ SubSeq(s, i, i) = "&"
           /\ \A e \in Entities : ~StartsWith(From(s, i), e)

\* per value of pagesUrl: whether the URL, and the feed URL made of it, stand in the
\* document with a raw special character
pagesUrlRaw ==
    [u \in {PagesUrl(g) : g \in PagesUrlEnv} \cup {PagesUrl(g) \o "/feed.xml" : g \in PagesUrlEnv}
        |-> HasRawSpecial(u)]

\* C11: in the rendered feed, the title, the url and the description of an item stand
\* at each of their places as escapeXml gives them (escaped once), and the feed/pages
\* URL taken from the environment stands escaped too: none of the five characters
\* & < > " ' of an input stands raw in the item.
C11_EveryInterpolationEscapedOnce ==
    pc = "rendered" =>
        \A i \in 1..Len(rss[1].items) :
            /\ \A f \in {"title", "descriptionImgAlt", "contentTitle", "contentImgAlt",
                         "mediaTitle"} :
                   rss[1].items[i][f] = escaped[result[i].title]
            /\ \A f \in {"link", "descriptionImgSrc", "contentImgSrc", "guid",
                         "enclosureUrl", "mediaContentUrl"} :
                   rss[1].items[i][f] = escaped[result[i].url]
            /\ \A f \in {"descriptionText", "contentText", "mediaDescription"} :
                   rss[1].items[i][f] = escaped[result[i].description]
            /\ ~pagesUrlRaw[rss[1].items[i].contentLearnMore]
            /\ ~pagesUrlRaw[rss[1].items[i].sourceUrl]

(***************************************************************************)
(* Properties of the titles and the descriptions.                          *)
(***************************************************************************)

\* the alt texts of TitleAlts that extractTitle does not accept: absent, the word
\* cartoon, a number, three characters, a text with the path marker
UnusableAlts == {"", "cartoon", "Cartoon", "2024", "Pi!", "uploads/wp-content/pi"}

\* the element has no usable alt, title, caption or heading text
NoUsableText(element) ==
    /\ element.alt \in UnusableAlts
    /\ element.siblingFigcaption = ""

\* per src of TitleSrcs, the title its filename normalizes to: leading digits
\* stripped, _ and - replaced by spaces, a space at each lower-to-upper transition,
\* whitespace collapsed, the first character upper-cased, cut to 50 characters, and
\* the generic label for an empty result
TitleOfFilename ==
    [src \in TitleSrcs |->
        CASE src = "/wp-content/uploads/quantum-mechanics.jpg" -> "Quantum mechanics"
          [] src = "/wp-content/uploads/eulerIdentity.jpg" -> "Euler Identity"
          [] src = "/wp-content/uploads/2024/03/538piethagoras.jpg" -> "Piethagoras"
          [] src = "/wp-content/uploads/gauss_curve__fit.min.jpg" -> "Gauss curve fit"
          [] src = "/wp-content/uploads/NASA_moonLanding.png" -> "NASA moon Landing"
          [] src = "/wp-content/uploads/pi.jpg" -> "Pi"
          [] src = "/wp-content/uploads/2024-03.jpg" -> "03"
          [] src = "/wp-content/uploads/123.jpg" -> "Educational Cartoon"
          [] src = "/wp-content/uploads/-_-.jpg" -> "Educational Cartoon"
          [] OTHER -> "The fundamental theorem of calculus explained in o"]

\* the same, with every word of quantum-mechanics.jpg capitalized
TitleOfFilenameAsStated ==
    [TitleOfFilename EXCEPT
        !["/wp-content/uploads/quantum-mechanics.jpg"] = "Quantum Mechanics"]

\* a title made of a filename: 1 to 50 characters, no _ or -, no two spaces in a row,
\* no space and no lower-case letter at its start
IsFilenameTitle(title) ==
    /\ Len(title) \in 1..50
    /\ \A i \in 1..Len(title) : SubSeq(title, i, i) \notin {"_", "-"}
    /\ \A i \in 1..(Len(title) - 1) : SubSeq(title, i, i + 1) # "  "
    /\ SubSeq(title, 1, 1) \notin LowerLetters \cup {" "}

\* C12 as stated: for an element with no usable alt, title, caption or heading text,
\* extractTitle gives the normalized form of the filename, with quantum-mechanics.jpg
\* giving 'Quantum Mechanics', and the generic label for a filename that normalizes
\* to the empty string.
C12_TitleIsCapitalizedFilename ==
    (pc = "titled" /\ NoUsableText(ret[1].element)) =>
        /\ ret[1].title = TitleOfFilenameAsStated[ret[1].element.src]
        /\ IsFilenameTitle(ret[1].title)

\* C12 amended: the same, with only the first character of the normalized filename
\* upper-cased: quantum-mechanics.jpg gives 'Quantum mechanics'.
C12_TitleIsFilenameWithFirstUpper ==
    (pc = "titled" /\ NoUsableText(ret[1].element)) =>
        /\ ret[1].title = TitleOfFilename[ret[1].element.src]
        /\ IsFilenameTitle(ret[1].title)

\* the alt text 'cartoon' is not usable, and the camel-case filename gives two words
C12_CamelCaseFilenameSplit ==
    /\ pc = "titled"
    /\ ret[1].element.alt = "cartoon"
    /\ ret[1].element.siblingFigcaption = ""
    /\ ret[1].element.src = "/wp-content/uploads/eulerIdentity.jpg"
    /\ ret[1].title = "Euler Identity"

\* C13: every item's title, cleaned from an accepted candidate or made from the
\* filename, and every title extractTitle returns, has 4 to 80 characters; it is
\* never empty.
C13_TitleLengthFrom4To80 ==
    /\ pc = "scraped" => \A i \in 1..Len(result) : Len(result[i].title) \in 4..80
    /\ pc = "titled" => Len(ret[1].title) \in 4..80

\* C14: every item's description, an accepted candidate (cut, with the ellipsis
\* marker, when it is long) or the sentence made of the title, and every description
\* extractDescription returns, has 11 to 200 characters.
C14_DescriptionLengthFrom11To200 ==
    /\ pc = "scraped" =>
          \A i \in 1..Len(result) : Len(result[i].description) \in 11..200
    /\ pc = "described" => Len(ret[1].description) \in 11..200

(***************************************************************************)
(* Properties of the order of the date patterns.                           *)
(***************************************************************************)

\* the patterns, by their place in the list as written, in the order of the claim:
\* /YYYY/MM/DD/, /YYYY/MM/, the 8-digit tokens, YYYY-MM-DD and YYYY_MM_DD, /YYYY/
StatedOrder == <<1, 2, 3, 6, 4, 5, 7>>

\* the order after the sort by specificity: the year/month/day patterns as written,
\* then /YYYY/MM/, then /YYYY/
SpecificityOrder == <<1, 3, 4, 5, 6, 2, 7>>

\* the date of the j-th pattern of the order, now for j = 0
DateOfOrdered(order, url, now, j) ==
    IF j = 0 THEN now ELSE TryPattern(patterns[order[j]], url, now.year).date

\* the date of the first pattern, in the given order, that yields a valid date of url
DateInOrder(order, url, now) ==
    DateOfOrdered(order, url, now,
                  MinOr0({j \in 1..Len(order) :
                             TryPattern(patterns[order[j]], url, now.year).ok}))

\* C15 as stated: extractDateFromUrl returns the date of the first pattern that yields
\* a valid date in the order /YYYY/MM/DD/, /YYYY/MM/, compact 8-digit tokens,
\* separator-delimited tokens, /YYYY/: a valid /YYYY/MM/ path before a filename with
\* a valid date token gives the date of the path.
C15_PathBeforeFilenameTokens ==
    pc = "extracted" =>
        ret[1].date = DateInOrder(StatedOrder, ret[1].url, Now(today, clock))

\* C15 amended: the order is /YYYY/MM/DD/, /YYYYMMDD, YYYY-MM-DD, YYYY_MM_DD, 8 digits
\* with no digit after them, /YYYY/MM/, /YYYY/: a full /YYYY/MM/DD/ segment wins over
\* a bare /YYYY/ segment, and a valid date token in the filename wins over a valid
\* /YYYY/MM/ path.
C15_FilenameTokensBeforeYearMonthPath ==
    pc = "extracted" =>
        /\ ret[1].date = DateInOrder(SpecificityOrder, ret[1].url, Now(today, clock))
        /\ ret[1].url = "/2000/u/2024/04/30/a.jpg" =>
              ret[1].date = [year |-> 2024, month |-> 3, day |-> 30, ms |-> 0]
        /\ ret[1].url = "/u/2024/04/a-2023-05-30.jpg" =>
              ret[1].date = [year |-> 2023, month |-> 4, day |-> 30, ms |-> 0]

\* the path says February 2024 and the filename February 29: the date is the 29th
C15_CompactTokenWonOverPath ==
    /\ pc = "extracted"
    /\ ret[1].url = "/u/2024/02/a20240229.jpg"
    /\ ret[1].date = [year |-> 2024, month |-> 1, day |-> 29, ms |-> 0]

(***************************************************************************)
(* Properties of the dates of the demo data.                               *)
(***************************************************************************)

\* the months from year 0 to the month `monthsAgo` months before today
MonthsBefore(monthsAgo) == today.year * 12 + today.month - monthsAgo

\* whether the item is the item of a demo with the year and the month of today minus
\* the monthsAgo of the demo, a day in 1..28, and that year and month in its URL
IsDemoItemOfMonth(item) ==
    \E k \in 1..Len(demos) :
        /\ item.filename = demos[k].filename
        /\ item.date.year = MonthsBefore(demos[k].monthsAgo) \div 12
        /\ item.date.month = MonthsBefore(demos[k].monthsAgo) % 12
        /\ item.date.day \in 1..28
        /\ item.url = "https://www.evertkwok.nl/wp-content/uploads/"
                         \o IntToString(MonthsBefore(demos[k].monthsAgo) \div 12) \o "/"
                         \o PadStart2((MonthsBefore(demos[k].monthsAgo) % 12) + 1) \o "/"
                         \o demos[k].filename

\* C16: on every day of a run, the 31st of a month included, every item of the demo
\* data has the year and the month of the current date minus the monthsAgo of its
\* entry, a day of the month in 1..28, and a URL /wp-content/uploads/YYYY/MM/<filename>
\* with that year and month.
C16_DemoDateIsMonthsAgo ==
    /\ pc = "demo" => \A i \in 1..Len(demoData) : IsDemoItemOfMonth(demoData[i])
    /\ (pc = "scraped" /\ scrapeError # NoError) =>
          \A i \in 1..Len(result) : IsDemoItemOfMonth(result[i])

(***************************************************************************)
(* Properties of the array of the selector loop.                           *)
(***************************************************************************)

\* C17: while the selector loop runs and when it is over, the array cartoons has no
\* resolved URL twice (an element that several selectors match, or the same image
\* by a relative src, is pushed and has its metadata inferred once), and its entries
\* are in the order of the first visits to their URLs.
C17_CandidatesDistinctByResolvedUrl ==
    (pc = "each" \/ Scraped) =>
        /\ Distinct([k \in 1..Len(cartoons) |-> cartoons[k].url])
        /\ \A k, l \in 1..Len(cartoons) :
              k < l => FirstVisit(cartoons[k].url) <= FirstVisit(cartoons[l].url)

(***************************************************************************)
(* Properties of the source of the list.                                   *)
(***************************************************************************)

\* the resolved URLs of the images of the pages
PageUrls == {imageFacts[c].fullUrl : c \in 1..Len(images)}

\* C18: the list scrapeCartoons returns is never a mix: with no error, every item of
\* it is a candidate the loop extracted from the page; after an error, it is the 8
\* items of getDemoData, one for each demo, and holds no candidate of the page, also
\* when the error was raised after candidates had been collected.
C18_ListFromOneSource ==
    pc = "scraped" =>
        \/ /\ scrapeError = NoError
           /\ \A i \in 1..Len(result) :
                 /\ \E k \in 1..Len(cartoons) : result[i] = cartoons[k]
                 /\ result[i].url \in PageUrls
        \/ /\ scrapeError # NoError
           /\ Len(result) = 8
           /\ IsDemoList(result)
           /\ \A i \in 1..Len(result) : result[i].url \notin PageUrls

\* a src that is no URL raised an error after candidates had been collected, and the
\* list returned is the demo data
C18_ErrorAfterCandidates ==
    /\ pc = "scraped"
    /\ scrapeError.kind = "url"
    /\ scrapeError.candidates > 0
    /\ Len(result) = 8

====
